---- MODULE Spec2Model ----
(***************************************************************************)
(* TFTrainer (src/transformers/trainer_tf.py): the training loop with      *)
(* gradient accumulation, checkpoint restore/save, and the shared          *)
(* evaluation / prediction loop.                                           *)
(*                                                                         *)
(* Tensors are scalars: one integer per trainable variable.  A quotient    *)
(* of the float division in _step is kept exact as a pair <<num, den>>.    *)
(* The model, the optimizer, the distribution strategy and the checkpoint  *)
(* manager are collaborators; what they return is an input of the model.   *)
(***************************************************************************)
EXTENDS Integers, Sequences, FiniteSets, TLC

VARIABLES
    args,            \* TFTrainingArguments (fixed at construction)
    model,           \* what the model can return: gradients per variable
    compute_metrics, \* the metrics callback: None or the mapping it returns
    prediction_loss_only, \* self.prediction_loss_only
    injected,        \* self.optimizers is not None
    train_dataset,   \* self.train_dataset
    eval_dataset,    \* self.eval_dataset
    global_step,     \* self.global_step
    epoch_logging,   \* self.epoch_logging, <<whole epochs, steps of train_steps>>
    accumulator,     \* self.gradient_accumulator: [step, gradients]
    iterations,      \* optimizer.iterations
    ckpts,           \* checkpoints kept in the checkpoint folder (saved iterations)
    log,             \* what _log wrote: sequence of [keys, step]
    pc,              \* position of the control thread in train()
    err,             \* the exception that ended the last call, or NoError
    calls,           \* number of train()/evaluate()/predict() calls made
    train_steps,     \* self.train_steps
    num_batches,     \* number of batches of the batched train ds
    restored,        \* iterations.numpy() at line 305
    start_epoch,     \* local start_epoch of train()
    epochs,          \* local epochs of train()
    epoch_iter,      \* loop variable of line 329
    it_pos,          \* batches consumed from iter(ds) in this pass
    i,               \* enumerate index of _training_steps (line 367)
    step,            \* enumerate index of line 330
    applied,         \* gradients handed to optimizer.apply_gradients last
    scale,           \* gradient_scale of the last _step
    folded,          \* history: micro-batches folded in since the last reset
    applied_from,    \* history: the micro-batches the last _step averaged
    summed,          \* history: the accumulated gradients the last _step read
    op,              \* history: the last call made, with its dataset argument
    ev               \* the running _prediction_loop call (frame of locals)

vars == <<args, model, compute_metrics, prediction_loss_only, injected,
          train_dataset, eval_dataset, global_step, epoch_logging, accumulator,
          iterations, ckpts, log, pc, err, calls, train_steps, num_batches,
          restored, start_epoch, epochs, epoch_iter, it_pos, i, step, applied,
          scale, folded, applied_from, summed, op, ev>>

\* ---------------------------------------------------------------- bounds
MaxCalls == 2
MaxExamples == 3

\* ------------------------------------------------------------- helpers
Last(s) == s[Len(s)]

RECURSIVE SumSeq(_)
SumSeq(s) == IF s = <<>> THEN 0 ELSE Head(s) + SumSeq(Tail(s))

\* math.ceil(a / b) for a >= 0, b > 0
Ceil(a, b) == (a + b - 1) \div b

\* names of model.trainable_variables
TrainableVariables == {"kernel", "bias"}

Zeros == [v \in TrainableVariables |-> 0]

\* a gradient returned by tf.gradients: None or a tensor
NoGradient == [none |-> TRUE, val |-> 0]
Tensor(x) == [none |-> FALSE, val |-> x]

NoError == [kind |-> "none", split |-> "none"]
\* the error of line 85 with the message of line 108
ValueErrorTrainNamingEval == [kind |-> "ValueError", split |-> "eval"]

\* line 85: "Trainer: training requires a train_dataset."
ValueErrorTrain == [kind |-> "ValueError", split |-> "train"]
\* line 108: "Trainer: evaluation requires an eval_dataset."
ValueErrorEval == [kind |-> "ValueError", split |-> "eval"]
UnboundLocalError == [kind |-> "UnboundLocalError", split |-> "none"]

\* --------------------------------------------------- GradientAccumulator
\* optimization_tf.GradientAccumulator: a step counter and a running sum of
\* the gradients of every trainable variable.
AccumulatorNew == [step |-> 0, gradients |-> Zeros]

\* GradientAccumulator.reset()
AccumulatorReset(acc) == [step |-> 0, gradients |-> Zeros]

\* an accumulator that sums the gradients without counting the micro-batch
AccumulatorCallUncounted(acc, per_replica) ==
    [step |-> acc.step,
     gradients |-> [v \in TrainableVariables |->
        acc.gradients[v] + SumSeq([r \in 1..Len(per_replica) |-> per_replica[r][v]])]]

\* an accumulator that folds in the gradients of the first replica only
AccumulatorCallFirstReplica(acc, per_replica) ==
    [step |-> acc.step + 1,
     gradients |-> [v \in TrainableVariables |-> acc.gradients[v] + per_replica[1][v]]]

\* GradientAccumulator.__call__(gradients), run once on every replica for
\* one micro-batch: per_replica is a sequence, one gradient list per replica.
AccumulatorCall(acc, per_replica) ==
    [step |-> acc.step + 1,
     gradients |-> [v \in TrainableVariables |->
        acc.gradients[v] + SumSeq([r \in 1..Len(per_replica) |-> per_replica[r][v]])]]

\* ------------------------------------------------------- replica steps
\* _forward, lines 420-423: a variable without gradient gets zeros_like(v)
ForwardGradients(raw) ==
    [v \in TrainableVariables |-> IF raw[v].none THEN 0 ELSE raw[v].val]

\* the scale without the replica count
GradientScaleStepOnly(acc) == acc.step

\* _step, line 379
GradientScale(acc) == acc.step * args.num_replicas

\* _step, lines 380-382: gradient / gradient_scale, kept as <<num, den>>
ScaleGradient(gradient, gradient_scale) == <<gradient, gradient_scale>>

\* a clip that bounds from above only
ClipUpperOnly(q, lo, hi) ==
    IF q[2] = 0 THEN q
    ELSE IF q[1] > hi * q[2] THEN <<hi, 1>>
    ELSE q

\* tf.clip_by_value(grad, -max_grad_norm, max_grad_norm) of line 383 on the
\* quotient q = <<num, den>>, den > 0 (den = 0 is the float nan/inf, kept)
ClipByValue(q, lo, hi) ==
    IF q[2] = 0 THEN q
    ELSE IF q[1] < lo * q[2] THEN <<lo, 1>>
    ELSE IF q[1] > hi * q[2] THEN <<hi, 1>>
    ELSE q

\* _step, lines 379-383: the gradients handed to optimizer.apply_gradients
StepGradients(acc) ==
    [v \in TrainableVariables |->
        ClipByValue(ScaleGradient(acc.gradients[v], GradientScale(acc)),
                    -args.max_grad_norm, args.max_grad_norm)]

\* ------------------------------------------------------------- datasets
NoDataset == [present |-> FALSE, n |-> 0, repeated |-> FALSE]
Dataset(n) == [present |-> TRUE, n |-> n, repeated |-> FALSE]

\* number of batches of ds.batch(batch_size, drop_remainder)
BatchCount(n, batch_size, drop_remainder) ==
    IF drop_remainder THEN n \div batch_size ELSE Ceil(n, batch_size)

\* get_train_tfdataset, lines 89-92
TrainSteps(n) ==
    IF args.max_steps > 0 THEN args.max_steps ELSE Ceil(n, args.train_batch_size)

\* get_train_tfdataset, lines 94-99 and 104: the batched ds the loop iterates
\* is built from the train dataset as it is before line 102
TrainDsBatches(n) == BatchCount(n, args.train_batch_size, args.dataloader_drop_last)

\* get_train_tfdataset, lines 101-102: self.train_dataset is replaced by its repetition
TrainDatasetAfter(ds) ==
    IF args.max_steps > 0 THEN [ds EXCEPT !.repeated = TRUE] ELSE ds

\* ------------------------------------------------------- checkpoints
\* tf.train.CheckpointManager(max_to_keep).save(): the new checkpoint is
\* added and only the newest max_to_keep are kept
LastN(s, n) == IF Len(s) <= n THEN s ELSE SubSeq(s, Len(s) - n + 1, Len(s))

\* a manager that, once full, keeps what it has and drops the new checkpoint
CkptSaveKeepsOldest(kept, it) ==
    IF Len(kept) < args.save_total_limit THEN Append(kept, it) ELSE kept

CkptSave(kept, it) == LastN(Append(kept, it), args.save_total_limit)

\* get_optimizers, lines 134-145: the injected optimizer keeps its counter,
\* a created one starts at 0
OptimizerIterations == IF injected THEN iterations ELSE 0

\* lines 298-303: ckpt.restore(latest_checkpoint) sets optimizer.iterations
RestoredIterations ==
    IF ckpts # <<>> THEN Last(ckpts) ELSE OptimizerIterations

\* lines 305-309
\* numpy floor division of the counter: a zero divisor gives 0 and a warning
FloorDivide(a, b) == IF b = 0 THEN 0 ELSE a \div b

\* StartEpoch without the + 1 of line 307
StartEpochZeroBased(iters, steps) ==
    IF iters > 0 THEN FloorDivide(iters, steps) ELSE 1

StartEpoch(iters, steps) ==
    IF iters > 0 THEN FloorDivide(iters, steps) + 1 ELSE 1

\* line 313
Epochs == IF args.max_steps > 0 THEN 1 ELSE args.num_train_epochs

\* a call of train(), evaluate(eval_dataset) or predict(test_dataset)
Call(name, dataset) == [name |-> name, dataset |-> dataset]
NoCall == Call("none", NoDataset)

\* no call of train() / evaluate() / predict() is running
Idle == pc \in {"idle", "done", "returned", "raised"}

NoFrame ==
    [pc |-> "none", caller |-> "none", batches |-> <<>>, pos |-> 0,
     requested |-> "None", loss_only |-> FALSE,
     preds |-> [none |-> TRUE, val |-> <<>>],
     label_ids |-> [none |-> TRUE, val |-> <<>>],
     loss |-> [none |-> TRUE, val |-> <<>>],
     called_back |-> FALSE, metrics |-> <<>>]

\* train(), line 289, and _step, line 386: the accumulator after the reset
TrainAccumulator(acc) == AccumulatorReset(acc)
\* _step without the reset of line 386
StepAccumulatorKept(acc) == acc

StepAccumulator(acc) == AccumulatorReset(acc)

\* ------------------------------------------------------------ _log
\* _log, lines 253-262: every entry is written tagged with self.global_step
LogEntry(keys, at) == [keys |-> keys, step |-> at]

\* the locals of a train() call that has not reached them yet
TrainLocals ==
    /\ train_steps = 0 /\ num_batches = 0 /\ restored = 0 /\ start_epoch = 0
    /\ epochs = 0 /\ epoch_iter = 0 /\ it_pos = 0 /\ i = 0 /\ step = 0

\* ------------------------------------------------------------- train()
\* train(), lines 284-327, with a train dataset that can be counted
Train ==
    /\ Idle /\ calls < MaxCalls
    /\ train_dataset.present /\ ~train_dataset.repeated
    /\ calls' = calls + 1
    /\ err' = NoError
    /\ train_steps' = TrainSteps(train_dataset.n)
    /\ num_batches' = TrainDsBatches(train_dataset.n)
    /\ train_dataset' = TrainDatasetAfter(train_dataset)
    /\ accumulator' = TrainAccumulator(accumulator)
    /\ folded' = (IF TrainAccumulator(accumulator).step = 0 THEN <<>> ELSE folded)
    /\ iterations' = RestoredIterations
    /\ restored' = RestoredIterations
    /\ start_epoch' = StartEpoch(RestoredIterations, TrainSteps(train_dataset.n))
    /\ epochs' = Epochs
    /\ epoch_iter' = StartEpoch(RestoredIterations, TrainSteps(train_dataset.n))
    /\ it_pos' = 0 /\ i' = 0 /\ step' = 0
    /\ pc' = "epoch"
    /\ op' = Call("train", NoDataset)
    /\ UNCHANGED <<args, model, compute_metrics, prediction_loss_only, injected,
                   eval_dataset, global_step, epoch_logging, ckpts, log, applied,
                   scale, applied_from, summed, ev>>

\* train() without train dataset: get_train_tfdataset raises at line 85
TrainMissing ==
    /\ Idle /\ calls < MaxCalls
    /\ ~train_dataset.present
    /\ calls' = calls + 1
    /\ err' = ValueErrorTrain
    /\ pc' = "raised"
    /\ op' = Call("train", NoDataset)
    /\ UNCHANGED <<args, model, compute_metrics, prediction_loss_only, injected,
                   train_dataset, eval_dataset, global_step, epoch_logging,
                   accumulator, iterations, ckpts, log, train_steps, num_batches,
                   restored, start_epoch, epochs, epoch_iter, it_pos, i, step,
                   applied, scale, folded, applied_from, summed, ev>>

\* train() again after a step-budget run: line 87 counts the examples of the
\* repeated self.train_dataset and never returns
TrainCountForever ==
    /\ Idle /\ calls < MaxCalls
    /\ train_dataset.present /\ train_dataset.repeated
    /\ calls' = calls + 1
    /\ err' = NoError
    /\ pc' = "counting"
    /\ op' = Call("train", NoDataset)
    /\ UNCHANGED <<args, model, compute_metrics, prediction_loss_only, injected,
                   train_dataset, eval_dataset, global_step, epoch_logging,
                   accumulator, iterations, ckpts, log, train_steps, num_batches,
                   restored, start_epoch, epochs, epoch_iter, it_pos, i, step,
                   applied, scale, folded, applied_from, summed, ev>>

\* line 329 enters an epoch; line 330 starts _training_steps, whose
\* _accumulate_next_gradients takes a fresh iter(ds) (line 390)
EpochBegin ==
    /\ pc = "epoch" /\ epoch_iter <= epochs
    /\ it_pos' = 0 /\ i' = 0 /\ step' = 0
    /\ pc' = "next"
    /\ UNCHANGED <<args, model, compute_metrics, prediction_loss_only, injected,
                   train_dataset, eval_dataset, global_step, epoch_logging,
                   accumulator, iterations, ckpts, log, err, calls, train_steps,
                   num_batches, restored, start_epoch, epochs, epoch_iter,
                   applied, scale, folded, applied_from, summed, op, ev>>

\* line 329: the range of epochs is exhausted, train() returns
TrainReturn ==
    /\ pc = "epoch" /\ epoch_iter > epochs
    /\ pc' = "done"
    /\ UNCHANGED <<args, model, compute_metrics, prediction_loss_only, injected,
                   train_dataset, eval_dataset, global_step, epoch_logging,
                   accumulator, iterations, ckpts, log, err, calls, train_steps,
                   num_batches, restored, start_epoch, epochs, epoch_iter,
                   it_pos, i, step, applied, scale, folded, applied_from, summed,
                   op, ev>>

\* _accumulate_next (lines 393-396) with _accumulate_gradients and _forward on
\* every replica, then the test of line 368
AccumulateNext ==
    /\ pc = "next" /\ it_pos < num_batches
    /\ \E raw \in [1..args.num_replicas -> model.gradients] :
        LET per_replica == [r \in 1..args.num_replicas |-> ForwardGradients(raw[r])]
        IN  /\ accumulator' = AccumulatorCall(accumulator, per_replica)
            /\ folded' = Append(folded, per_replica)
    /\ it_pos' = it_pos + 1
    /\ IF i % args.gradient_accumulation_steps = 0
         THEN pc' = "apply" /\ i' = i
         ELSE pc' = "next" /\ i' = i + 1
    /\ UNCHANGED <<args, model, compute_metrics, prediction_loss_only, injected,
                   train_dataset, eval_dataset, global_step, epoch_logging,
                   iterations, ckpts, log, err, calls, train_steps, num_batches,
                   restored, start_epoch, epochs, epoch_iter, step, applied,
                   scale, applied_from, summed, op, ev>>

\* lines 401-402: the iterator is exhausted, the generators end and with
\* them the inner loop of line 330
EndOfData ==
    /\ pc = "next" /\ it_pos >= num_batches
    /\ epoch_iter' = epoch_iter + 1
    /\ pc' = "epoch"
    /\ UNCHANGED <<args, model, compute_metrics, prediction_loss_only, injected,
                   train_dataset, eval_dataset, global_step, epoch_logging,
                   accumulator, iterations, ckpts, log, err, calls, train_steps,
                   num_batches, restored, start_epoch, epochs, it_pos, i, step,
                   applied, scale, folded, applied_from, summed, op, ev>>

\* _apply_gradients / _step, lines 369 and 377-386, then the yield of line 370
ApplyGradients ==
    /\ pc = "apply"
    /\ scale' = GradientScale(accumulator)
    /\ applied' = StepGradients(accumulator)
    /\ iterations' = iterations + 1
    /\ accumulator' = StepAccumulator(accumulator)
    /\ folded' = (IF StepAccumulator(accumulator).step = 0 THEN <<>> ELSE folded)
    /\ pc' = "body"
    /\ applied_from' = folded
    /\ summed' = accumulator.gradients
    /\ UNCHANGED <<args, model, compute_metrics, prediction_loss_only, injected,
                   train_dataset, eval_dataset, global_step, epoch_logging,
                   ckpts, log, err, calls, train_steps, num_batches, restored,
                   start_epoch, epochs, epoch_iter, it_pos, i, step, op, ev>>

\* ------------------------------------------------ evaluation datasets
\* the examples of a dataset of n examples, in input order
Examples(n) == [k \in 1..n |-> k]

\* ds.batch(batch_size, drop_remainder): consecutive slices of the examples
RECURSIVE Batch(_, _, _)
Batch(xs, batch_size, drop_remainder) ==
    IF Len(xs) = 0 THEN <<>>
    ELSE IF Len(xs) < batch_size
         THEN (IF drop_remainder THEN <<>> ELSE <<xs>>)
         ELSE <<SubSeq(xs, 1, batch_size)>>
              \o Batch(SubSeq(xs, batch_size + 1, Len(xs)), batch_size, drop_remainder)

\* get_eval_tfdataset, lines 110-117, and get_test_tfdataset, lines 120-122
EvalBatches(n) == Batch(Examples(n), args.eval_batch_size, args.dataloader_drop_last)

\* experimental_distribute_dataset: replica r gets the r-th consecutive slice
\* of a batch, the first replicas one example more when it does not divide
ShardSize(b, r) ==
    (b \div args.num_replicas) + (IF r <= b % args.num_replicas THEN 1 ELSE 0)

RECURSIVE ShardStart(_, _)
ShardStart(b, r) == IF r = 1 THEN 1 ELSE ShardStart(b, r - 1) + ShardSize(b, r - 1)

Shard(batch, r) ==
    SubSeq(batch, ShardStart(Len(batch), r),
           ShardStart(Len(batch), r) + ShardSize(Len(batch), r) - 1)

\* the shards of a batch listed from the last replica to the first
PerReplicaReversed(batch) ==
    [r \in 1..args.num_replicas |-> Shard(batch, args.num_replicas + 1 - r)]

PerReplica(batch) == [r \in 1..args.num_replicas |-> Shard(batch, r)]

\* the model in inference mode: loss, logits row and label of one example
ModelLoss(x) == x
ModelLogits(x) == x
Label(x) == x

RECURSIVE Concat(_)
Concat(ss) == IF ss = <<>> THEN <<>> ELSE Head(ss) \o Concat(Tail(ss))

\* _evaluate_steps, lines 177-180, and line 206: the mean over the losses of
\* all replicas, as <<sum, count>>
ReducedLoss(per_replica) ==
    <<SumSeq([k \in 1..Len(Concat(per_replica)) |-> ModelLoss(Concat(per_replica)[k])]),
      Len(Concat(per_replica))>>

\* ------------------------------------------------------------ metrics
\* a Python dict: a sequence of [key, val] in insertion order; a key is a
\* sequence of string pieces, "eval_loss" is <<"eval_", "loss">>
Key(name) == <<name>>
EvalKey(name) == <<"eval_", name>>

StartsWithEval(key) == Len(key) > 0 /\ key[1] = "eval_"
WithEvalPrefix(key) == <<"eval_">> \o key

DictKeys(d) == [k \in 1..Len(d) |-> d[k].key]
DictHas(d, key) == \E k \in 1..Len(d) : d[k].key = key
DictGet(d, key) == d[CHOOSE k \in 1..Len(d) : d[k].key = key].val
DictSet(d, key, val) ==
    IF DictHas(d, key)
    THEN [k \in 1..Len(d) |-> IF d[k].key = key THEN [key |-> key, val |-> val] ELSE d[k]]
    ELSE Append(d, [key |-> key, val |-> val])
DictPop(d, key) == SelectSeq(d, LAMBDA e : e.key # key)

\* lines 247-249: every key of the snapshot list(metrics.keys()) without the
\* prefix is popped and set again under "eval_" + key
RECURSIVE PrefixKeys(_, _)
PrefixKeys(metrics, keys) ==
    IF keys = <<>> THEN metrics
    ELSE IF StartsWithEval(Head(keys))
         THEN PrefixKeys(metrics, Tail(keys))
         ELSE PrefixKeys(DictSet(DictPop(metrics, Head(keys)),
                                 WithEvalPrefix(Head(keys)),
                                 DictGet(metrics, Head(keys))),
                         Tail(keys))

\* an optional array / value: None or a value
None == [none |-> TRUE, val |-> <<>>]
Some(x) == [none |-> FALSE, val |-> x]

\* np.append on the growing array, lines 217-236
Grow(arr, rows) == IF arr.none THEN Some(rows) ELSE Some(arr.val \o rows)

\* lines 240-243
CallbackMetrics(preds, label_ids) ==
    IF ~compute_metrics.none /\ ~preds.none /\ ~label_ids.none
    THEN compute_metrics.val ELSE <<>>

\* lines 240-249
FinalMetrics(preds, label_ids, loss) ==
    PrefixKeys(DictSet(CallbackMetrics(preds, label_ids), EvalKey("loss"), loss),
               DictKeys(DictSet(CallbackMetrics(preds, label_ids), EvalKey("loss"), loss)))

\* line 193
LossOnly(argument) ==
    IF argument # "None" THEN argument = "True" ELSE prediction_loss_only

\* line 272: what evaluate() hands to _prediction_loop as prediction_loss_only
EvaluateLossOnlyArgument(argument) == "None"

\* the frame of a _prediction_loop call at line 198-201
Frame(caller, batches, requested, argument) ==
    [pc |-> "loop", caller |-> caller, batches |-> batches, pos |-> 0,
     requested |-> requested, loss_only |-> LossOnly(argument),
     preds |-> None, label_ids |-> None, loss |-> None,
     called_back |-> FALSE, metrics |-> <<>>]

\* ------------------------------------------------- the body of line 330
KeySet(d) == {d[k].key : k \in 1..Len(d)}

\* lines 335-338
DebugLog(lg, at) ==
    IF args.debug THEN Append(lg, LogEntry({Key("loss"), Key("epoch")}, at)) ELSE lg

\* an evaluation at every applied step when evaluate_during_training is set
EvaluationDueEveryStep(at) == args.evaluate_during_training

\* line 346
EvaluationDue(at) == args.evaluate_during_training /\ at % args.eval_steps = 0

\* lines 349-354
CadenceLog(lg, at) ==
    IF at % args.logging_steps = 0
    THEN Append(lg, LogEntry({Key("loss"), Key("learning_rate"), Key("epoch")}, at))
    ELSE lg

\* a checkpoint at every applied step
CheckpointDueAlways(at) == TRUE

\* lines 356-358
CheckpointDue(at) == at % args.save_steps = 0

\* a loop without the break of lines 360-361
EpochBreakNever(at) == FALSE

\* lines 360-361
EpochBreak(at) == IF train_steps = 0 THEN TRUE ELSE at % train_steps = 0

\* line 331 with a counter incremented by the loop in place of the optimizer's
GlobalStepCounted == global_step + 1

\* line 331: self.global_step = iterations.numpy()
GlobalStep == iterations

\* lines 331-347: the yielded step up to the call of evaluate()
StepHead ==
    /\ pc = "body"
    /\ global_step' = GlobalStep
    /\ epoch_logging' = <<epoch_iter - 1, step + 1>>
    /\ log' = DebugLog(log, GlobalStep)
    /\ IF EvaluationDue(GlobalStep)
         THEN IF eval_dataset.present
                THEN /\ ev' = Frame("train", EvalBatches(eval_dataset.n), "None",
                                    EvaluateLossOnlyArgument("None"))
                     /\ pc' = "eval" /\ err' = err
                ELSE /\ pc' = "raised" /\ err' = ValueErrorEval /\ ev' = ev
         ELSE pc' = "tail" /\ ev' = ev /\ err' = err
    /\ UNCHANGED <<args, model, compute_metrics, prediction_loss_only, injected,
                   train_dataset, eval_dataset, accumulator, iterations, ckpts,
                   calls, train_steps, num_batches, restored, start_epoch,
                   epochs, epoch_iter, it_pos, i, step, applied, scale, folded,
                   applied_from, summed, op>>

\* lines 349-361: cadence log, checkpoint, epoch break
StepTail ==
    /\ pc = "tail"
    /\ log' = CadenceLog(log, global_step)
    /\ ckpts' = (IF CheckpointDue(global_step) THEN CkptSave(ckpts, iterations) ELSE ckpts)
    /\ IF EpochBreak(global_step)
         THEN /\ epoch_iter' = epoch_iter + 1 /\ pc' = "epoch"
              /\ step' = step /\ i' = i
         ELSE /\ epoch_iter' = epoch_iter /\ pc' = "next"
              /\ step' = step + 1 /\ i' = i + 1
    /\ UNCHANGED <<args, model, compute_metrics, prediction_loss_only, injected,
                   train_dataset, eval_dataset, global_step, epoch_logging,
                   accumulator, iterations, err, calls, train_steps, num_batches,
                   restored, start_epoch, epochs, it_pos, applied, scale, folded,
                   applied_from, summed, op, ev>>

\* ------------------------------------------- evaluate() and predict()
\* the arguments a caller may pass
DatasetArguments == {NoDataset} \cup {Dataset(n) : n \in 0..MaxExamples}
LossOnlyArguments == {"None", "True", "False"}

\* evaluate(eval_dataset, prediction_loss_only), lines 270-272
Evaluate ==
    /\ Idle /\ calls < MaxCalls
    /\ \E d \in DatasetArguments, p \in LossOnlyArguments :
        /\ d.present \/ eval_dataset.present
        /\ ev' = Frame("evaluate",
                       EvalBatches(IF d.present THEN d.n ELSE eval_dataset.n),
                       p, EvaluateLossOnlyArgument(p))
        /\ op' = Call("evaluate", d)
    /\ calls' = calls + 1
    /\ err' = NoError
    /\ pc' = "evaluate"
    /\ UNCHANGED <<args, model, compute_metrics, prediction_loss_only, injected,
                   train_dataset, eval_dataset, global_step, epoch_logging,
                   accumulator, iterations, ckpts, log, train_steps, num_batches,
                   restored, start_epoch, epochs, epoch_iter, it_pos, i, step,
                   applied, scale, folded, applied_from, summed>>

\* evaluate() without any eval dataset: get_eval_tfdataset raises at line 108
EvaluateMissing ==
    /\ Idle /\ calls < MaxCalls
    /\ ~eval_dataset.present
    /\ calls' = calls + 1
    /\ err' = ValueErrorEval
    /\ pc' = "raised"
    /\ op' = Call("evaluate", NoDataset)
    /\ UNCHANGED <<args, model, compute_metrics, prediction_loss_only, injected,
                   train_dataset, eval_dataset, global_step, epoch_logging,
                   accumulator, iterations, ckpts, log, train_steps, num_batches,
                   restored, start_epoch, epochs, epoch_iter, it_pos, i, step,
                   applied, scale, folded, applied_from, summed, ev>>

\* predict(test_dataset), lines 454-456
Predict ==
    /\ Idle /\ calls < MaxCalls
    /\ \E n \in 0..MaxExamples :
        /\ ev' = Frame("predict", EvalBatches(n), "None", "None")
        /\ op' = Call("predict", Dataset(n))
    /\ calls' = calls + 1
    /\ err' = NoError
    /\ pc' = "predict"
    /\ UNCHANGED <<args, model, compute_metrics, prediction_loss_only, injected,
                   train_dataset, eval_dataset, global_step, epoch_logging,
                   accumulator, iterations, ckpts, log, train_steps, num_batches,
                   restored, start_epoch, epochs, epoch_iter, it_pos, i, step,
                   applied, scale, folded, applied_from, summed>>

\* one pass of the loop of lines 203-238
PredictionBatch ==
    /\ ev.pc = "loop" /\ ev.pos < Len(ev.batches)
    /\ LET batch == ev.batches[ev.pos + 1]
           shards == PerReplica(batch)
       IN ev' = [ev EXCEPT
            !.pos = ev.pos + 1,
            !.loss = Some(ReducedLoss(shards)),
            !.preds = IF ev.loss_only THEN ev.preds
                      ELSE Grow(ev.preds,
                                Concat([r \in 1..Len(shards) |->
                                   [k \in 1..Len(shards[r]) |-> ModelLogits(shards[r][k])]])),
            !.label_ids = IF ev.loss_only THEN ev.label_ids
                          ELSE Grow(ev.label_ids,
                                Concat([r \in 1..Len(shards) |->
                                   [k \in 1..Len(shards[r]) |-> Label(shards[r][k])]]))]
    /\ UNCHANGED <<args, model, compute_metrics, prediction_loss_only, injected,
                   train_dataset, eval_dataset, global_step, epoch_logging,
                   accumulator, iterations, ckpts, log, pc, err, calls,
                   train_steps, num_batches, restored, start_epoch, epochs,
                   epoch_iter, it_pos, i, step, applied, scale, folded,
                   applied_from, summed, op>>

\* lines 240-251, then the rest of evaluate() (lines 274-278) when it is the caller
PredictionReturn ==
    /\ ev.pc = "loop" /\ ev.pos >= Len(ev.batches) /\ ~ev.loss.none
    /\ ev' = [ev EXCEPT
            !.pc = "returned",
            !.called_back = ~compute_metrics.none /\ ~ev.preds.none /\ ~ev.label_ids.none,
            !.metrics = FinalMetrics(ev.preds, ev.label_ids, ev.loss.val)]
    /\ log' = (IF ev.caller = "predict" THEN log
               ELSE Append(log, LogEntry(
                      KeySet(FinalMetrics(ev.preds, ev.label_ids, ev.loss.val))
                        \cup {Key("epoch")}, global_step)))
    /\ pc' = (IF ev.caller = "train" THEN "tail" ELSE "returned")
    /\ UNCHANGED <<args, model, compute_metrics, prediction_loss_only, injected,
                   train_dataset, eval_dataset, global_step, epoch_logging,
                   accumulator, iterations, ckpts, err, calls, train_steps,
                   num_batches, restored, start_epoch, epochs, epoch_iter,
                   it_pos, i, step, applied, scale, folded, applied_from, summed,
                   op>>

\* line 245 when the dataset gave no batch: loss was never assigned
PredictionRaise ==
    /\ ev.pc = "loop" /\ ev.pos >= Len(ev.batches) /\ ev.loss.none
    /\ ev' = [ev EXCEPT !.pc = "raised"]
    /\ err' = UnboundLocalError
    /\ pc' = "raised"
    /\ UNCHANGED <<args, model, compute_metrics, prediction_loss_only, injected,
                   train_dataset, eval_dataset, global_step, epoch_logging,
                   accumulator, iterations, ckpts, log, calls, train_steps,
                   num_batches, restored, start_epoch, epochs, epoch_iter,
                   it_pos, i, step, applied, scale, folded, applied_from, summed,
                   op>>

\* the process is stopped and started again: __init__, lines 60-69, on the
\* same arguments; the checkpoint folder and the written logs stay
Restart ==
    /\ pc # "idle" /\ calls < MaxCalls
    /\ global_step' = 0
    /\ epoch_logging' = <<0, 0>>
    /\ accumulator' = AccumulatorNew
    /\ folded' = <<>>
    /\ iterations' = 0
    /\ train_dataset' = [train_dataset EXCEPT !.repeated = FALSE]
    /\ pc' = "idle"
    /\ err' = NoError
    /\ ev' = NoFrame
    /\ train_steps' = 0 /\ num_batches' = 0 /\ restored' = 0 /\ start_epoch' = 0
    /\ epochs' = 0 /\ epoch_iter' = 0 /\ it_pos' = 0 /\ i' = 0 /\ step' = 0
    /\ applied' = [v \in TrainableVariables |-> <<0, 1>>]
    /\ scale' = 0
    /\ applied_from' = <<>>
    /\ op' = NoCall
    /\ summed' = Zeros
    /\ UNCHANGED <<args, model, compute_metrics, prediction_loss_only, injected,
                   eval_dataset, ckpts, log, calls>>

\* ---------------------------------------------------------- construction
\* the values of TFTrainingArguments a run may be given
\* (each parameter is the set of values of one argument, in the order of the fields)
Arguments(ms, ep, tb, eb, ga, dl, nr, gn, ss, es, ls, et, sl, db) ==
    [max_steps : ms, num_train_epochs : ep,
     train_batch_size : tb, eval_batch_size : eb,
     gradient_accumulation_steps : ga,
     dataloader_drop_last : dl, num_replicas : nr,
     max_grad_norm : gn, save_steps : ss,
     eval_steps : es, logging_steps : ls,
     evaluate_during_training : et,
     save_total_limit : sl, debug : db]

\* models by the gradients they return for (kernel, bias)
Gradient(k, b) == [kernel |-> k, bias |-> b]
ConstantModel == [gradients |-> {Gradient(Tensor(1), NoGradient)}]
VaryingModel ==
    [gradients |-> {Gradient(Tensor(2), NoGradient),
                    Gradient(Tensor(-3), Tensor(3)),
                    Gradient(Tensor(1), Tensor(1))}]

\* metrics callbacks by the mapping they return
Entry(key, num) == [key |-> key, val |-> <<num, 1>>]
MetricsCallbacks ==
    {None,
     Some(<<Entry(Key("acc"), 7)>>),
     Some(<<Entry(Key("loss"), 8)>>),
     Some(<<Entry(EvalKey("loss"), 9)>>),
     Some(<<Entry(Key("acc"), 7), Entry(EvalKey("acc"), 6)>>)}

\* __init__, lines 60-69
InitWith(arguments, models, callbacks, loss_only, optimizers, train, eval) ==
    /\ args \in arguments
    /\ model \in models
    /\ compute_metrics \in callbacks
    /\ prediction_loss_only \in loss_only
    /\ injected \in optimizers
    /\ train_dataset \in train
    /\ eval_dataset \in eval
    /\ global_step = 0
    /\ epoch_logging = <<0, 0>>
    /\ accumulator = AccumulatorNew
    /\ iterations = 0
    /\ ckpts = <<>>
    /\ log = <<>>
    /\ pc = "idle"
    /\ err = NoError
    /\ calls = 0
    /\ TrainLocals
    /\ applied = [v \in TrainableVariables |-> <<0, 1>>]
    /\ scale = 0
    /\ folded = <<>>
    /\ applied_from = <<>>
    /\ summed = Zeros
    /\ op = NoCall
    /\ ev = NoFrame

\* the training loop under step and epoch budgets, with restarts
InitTrain ==
    InitWith(Arguments({0, 2}, {1, 2}, {1, 2}, {2}, {1, 2}, BOOLEAN, {1}, {1},
                       {1, 2}, {2}, {2}, BOOLEAN, {1, 2}, {FALSE}),
             {ConstantModel}, {None}, {TRUE}, BOOLEAN,
             {Dataset(n) : n \in 0..MaxExamples}, {Dataset(2)})

NextTrain ==
    \/ Train \/ TrainCountForever \/ EpochBegin \/ TrainReturn
    \/ AccumulateNext \/ EndOfData \/ ApplyGradients \/ StepHead \/ StepTail
    \/ PredictionBatch \/ PredictionReturn \/ Restart

SpecTrain == InitTrain /\ [][NextTrain]_vars

\* accumulation, averaging and clipping over replicas
InitGrad ==
    InitWith(Arguments({0}, {1, 2}, {1}, {1}, {1, 2, 3}, {FALSE}, {1, 2}, {1, 2},
                       {2}, {2}, {2}, {FALSE}, {1}, {FALSE}),
             {ConstantModel, VaryingModel}, {None}, {TRUE}, {FALSE},
             {Dataset(n) : n \in 0..MaxExamples}, {NoDataset})

NextGrad ==
    \/ Train \/ EpochBegin \/ TrainReturn \/ AccumulateNext \/ EndOfData
    \/ ApplyGradients \/ StepHead \/ StepTail

SpecGrad == InitGrad /\ [][NextGrad]_vars

\* evaluate() and predict()
InitEval ==
    InitWith(Arguments({0}, {1}, {1}, {1, 2}, {1}, BOOLEAN, {1, 2}, {1},
                       {2}, {2}, {2}, {FALSE}, {1}, {FALSE}),
             {ConstantModel}, MetricsCallbacks, BOOLEAN, {FALSE},
             {NoDataset}, {NoDataset} \cup {Dataset(n) : n \in 0..MaxExamples})

NextEval ==
    \/ Evaluate \/ EvaluateMissing \/ Predict
    \/ PredictionBatch \/ PredictionReturn \/ PredictionRaise

SpecEval == InitEval /\ [][NextEval]_vars

\* every operation of the trainer
Init ==
    InitWith(Arguments({0, 2}, {1}, {1}, {1}, {1, 2}, {FALSE}, {1}, {1},
                       {1}, {1}, {1}, BOOLEAN, {1}, BOOLEAN),
             {ConstantModel}, {None, Some(<<Entry(Key("acc"), 7)>>)}, BOOLEAN, {FALSE},
             {NoDataset, Dataset(2)}, {NoDataset, Dataset(0), Dataset(1)})

Next ==
    \/ Train \/ TrainMissing \/ TrainCountForever \/ EpochBegin \/ TrainReturn
    \/ AccumulateNext \/ EndOfData \/ ApplyGradients \/ StepHead \/ StepTail
    \/ Evaluate \/ EvaluateMissing \/ Predict
    \/ PredictionBatch \/ PredictionReturn \/ PredictionRaise \/ Restart

Spec == Init /\ [][Next]_vars

\* ================================================================ claims
\* positions of the control thread inside a train() call that has passed line 313
InTrain == pc \in {"epoch", "next", "apply", "body", "eval", "tail", "done"}

\* C1: with a step budget (max_steps > 0) train() runs one epoch and, started
\* from optimizer iteration 0, returns with the global step equal to
\* max_steps, whatever the size of the train dataset (stated here for the
\* datasets that give at least one batch).
C1_StepBudget ==
    (pc = "done" /\ args.max_steps > 0 /\ restored = 0 /\ num_batches >= 1)
        => (epochs = 1 /\ global_step = args.max_steps)

\* C2: every optimizer apply of a pass, the first included, happens when the
\* accumulator has folded in exactly gradient_accumulation_steps
\* micro-batches since its last reset.
C2_ApplyEveryN ==
    pc = "apply" => accumulator.step = args.gradient_accumulation_steps

\* C3: train() starts its epoch loop at floor(I / S) + 1 when the restored
\* iteration counter I is nonzero (S = train_steps), and at 1 when I = 0.
C3_ResumeEpoch ==
    InTrain =>
        /\ restored > 0 =>
            /\ (start_epoch - 1) * train_steps <= restored
            /\ restored < start_epoch * train_steps
        /\ restored = 0 => start_epoch = 1
        /\ epoch_iter >= start_epoch

\* C3 witness: a run resumed from a checkpoint taken at a step that is no
\* multiple of train_steps has entered epoch 2
C3_Witness ==
    /\ pc = "next" /\ restored > 0 /\ restored % train_steps # 0
    /\ start_epoch = 2 /\ epoch_iter = 2 /\ restored >= train_steps

\* the loss of a batch: the mean of the losses of its examples, <<sum, count>>
BatchMeanLoss(batch) == <<SumSeq([k \in 1..Len(batch) |-> ModelLoss(batch[k])]), Len(batch)>>

\* C4: when loss-only mode is requested, by the trainer's setting or by the
\* prediction_loss_only argument of the call, predictions and label_ids stay
\* None after every batch, the metrics callback is not invoked and the
\* metrics hold only eval_loss.
C4_LossOnly ==
    (ev.pc \in {"loop", "returned"} /\ (prediction_loss_only \/ ev.requested = "True"))
        => /\ ev.preds.none /\ ev.label_ids.none
           /\ ev.pc = "returned" =>
                (~ev.called_back /\ KeySet(ev.metrics) = {EvalKey("loss")})

\* C5: every call of the prediction loop that has consumed its dataset, a
\* dataset of zero batches included, returns a mapping that contains
\* eval_loss, whose keys all start with eval_, and in which every callback
\* key k without the prefix is found as eval_ + k with the callback's value.
C5_EvalLossKey ==
    (ev.pc \in {"returned", "raised"}) =>
        /\ ev.pc = "returned"
        /\ DictHas(ev.metrics, EvalKey("loss"))
        /\ \A key \in KeySet(ev.metrics) : StartsWithEval(key)
        /\ ev.called_back =>
             \A k \in 1..Len(compute_metrics.val) :
                ~StartsWithEval(compute_metrics.val[k].key) =>
                    DictGet(ev.metrics, WithEvalPrefix(compute_metrics.val[k].key))
                        = compute_metrics.val[k].val

\* C6: the value returned under eval_loss is the mean loss of the last batch
\* processed, whatever keys the metrics callback returns.
C6_EvalLossValue ==
    ev.pc = "returned" =>
        /\ DictHas(ev.metrics, EvalKey("loss"))
        /\ DictGet(ev.metrics, EvalKey("loss")) = BatchMeanLoss(Last(ev.batches))

\* C7: train() without a train dataset and evaluate() with neither an
\* argument dataset nor a configured one raise a configuration error that
\* names the missing split, and the failing call changes nothing: global
\* step, epoch progress, accumulator, optimizer iterations, checkpoints and
\* the written log are as before.
C7_MissingDataset ==
    [][(/\ calls' = calls + 1
        /\ \/ op'.name = "train" /\ ~train_dataset.present
           \/ op'.name = "evaluate" /\ ~op'.dataset.present /\ ~eval_dataset.present)
       => /\ pc' = "raised"
          /\ err'.kind = "ValueError"
          /\ err'.split = (IF op'.name = "train" THEN "train" ELSE "eval")
          /\ UNCHANGED <<global_step, epoch_logging, accumulator, iterations,
                         ckpts, log>>]_vars

\* C7 witness: evaluate() has raised for the missing eval split after a
\* training run that advanced the global step, wrote logs and saved a checkpoint
C7_Witness ==
    /\ op.name = "evaluate" /\ ~op.dataset.present /\ ~eval_dataset.present
    /\ pc = "raised" /\ err = ValueErrorEval
    /\ global_step > 0 /\ Len(log) > 0 /\ ckpts # <<>>

\* C8: right after every optimizer apply (_step), and right after train()
\* has reset the accumulator at its start, the accumulator's step count is 0
\* and every accumulated gradient is zero.
C8_AccumulatorReset ==
    (pc = "body" \/ (pc = "epoch" /\ epoch_iter = start_epoch))
        => /\ accumulator.step = 0
           /\ \A v \in TrainableVariables : accumulator.gradients[v] = 0

\* C8 witness: an apply over two micro-batches with nonzero sums has just
\* been made and the accumulator is empty
C8_Witness ==
    /\ pc = "body" /\ Len(applied_from) = 2
    /\ \A v \in TrainableVariables : summed[v] # 0
    /\ accumulator = AccumulatorNew

\* the sum of the gradients of variable v over the micro-batches and replicas of history h
HistorySum(h, v) ==
    SumSeq([m \in 1..Len(h) |-> SumSeq([r \in 1..Len(h[m]) |-> h[m][r][v]])])

\* every replica of every micro-batch of history h gave gradient g for variable v
AllEqual(h, v, g) ==
    \A m \in 1..Len(h) : \A r \in 1..Len(h[m]) : h[m][r][v] = g

\* C9: at an apply the accumulated gradients are divided by step count x
\* replica count; when all N micro-batches gave the same per-replica
\* gradient g within the clip range, the optimizer is handed exactly g.
C9_Averaging ==
    applied_from # <<>> =>
        /\ scale = Len(applied_from) * args.num_replicas
        /\ \A v \in TrainableVariables :
            LET g == applied_from[1][1][v]
            IN (/\ AllEqual(applied_from, v, g)
                /\ -args.max_grad_norm <= g /\ g <= args.max_grad_norm)
               => /\ applied[v][2] > 0
                  /\ applied[v][1] = g * applied[v][2]

\* C9 witness: two micro-batches on two replicas all gave kernel gradient 2,
\* inside the clip range, and the apply has been made
C9_Witness ==
    /\ pc = "body" /\ Len(applied_from) = 2 /\ args.num_replicas = 2
    /\ AllEqual(applied_from, "kernel", 2) /\ args.max_grad_norm >= 2
    /\ applied["kernel"] = <<8, 4>>

\* C10: every gradient component handed to the optimizer lies in
\* [-max_grad_norm, max_grad_norm]: the averaged component is replaced by the
\* bound it exceeds and passed unchanged when inside the range.
C10_Clipping ==
    applied_from # <<>> =>
        \A v \in TrainableVariables :
            LET max == args.max_grad_norm
                q == applied[v]
            IN /\ q[2] > 0
               /\ -max * q[2] <= q[1] /\ q[1] <= max * q[2]
               /\ summed[v] > max * scale => q = <<max, 1>>
               /\ summed[v] < -max * scale => q = <<-max, 1>>
               /\ (-max * scale <= summed[v] /\ summed[v] <= max * scale)
                    => q = <<summed[v], scale>>

\* C10 witness: one apply clipped the kernel gradient to the lower bound
\* and the bias gradient to the upper bound
C10_Witness ==
    /\ pc = "body"
    /\ summed["kernel"] < -args.max_grad_norm * scale
    /\ summed["bias"] > args.max_grad_norm * scale
    /\ applied["kernel"] = <<-args.max_grad_norm, 1>>
    /\ applied["bias"] = <<args.max_grad_norm, 1>>


\* C11: every optimizer apply advances the iteration counter by one and
\* nothing else in train() changes it after the restore, so the counter is
\* the restored count plus the applies of the call; every applied step sets
\* global_step to that counter, which is one more than at the applied step
\* before it in the run (restored + 1 at the first), and global_step stays
\* put between applied steps.
C11_GlobalStep ==
    [][/\ (pc = "apply" /\ pc' = "body") => iterations' = iterations + 1
       /\ (InTrain /\ InTrain' /\ pc # "apply" /\ calls' = calls)
            => iterations' = iterations
       /\ (pc = "body" /\ pc' \in {"eval", "tail", "raised"}) =>
            /\ global_step' = iterations
            /\ iterations > restored
            /\ iterations > restored + 1 => global_step' = global_step + 1
       /\ (InTrain /\ InTrain' /\ pc # "body") => global_step' = global_step
       /\ pc' \in {"eval", "tail"} => global_step' = iterations']_vars

\* C11 witness: a run resumed from a checkpoint has applied its second step
C11_Witness ==
    /\ pc = "tail" /\ restored > 0 /\ ckpts # <<>>
    /\ iterations = restored + 2 /\ global_step = iterations


\* C12: the checkpoint folder never holds more than save_total_limit
\* checkpoints; a save adds the new checkpoint as the newest and removes the
\* oldest one only when the limit would be exceeded, so the folder holds
\* exactly the most recent saves, in the order of their counters; and the
\* next train() restores the newest one.
C12_Retention ==
    [][/\ Len(ckpts') <= args.save_total_limit
       /\ \A k \in 1..(Len(ckpts') - 1) : ckpts'[k] < ckpts'[k + 1]
       /\ (pc = "tail" /\ pc' # "idle" /\ CheckpointDue(global_step)) =>
            /\ Last(ckpts') = iterations
            /\ ckpts' = (IF Len(ckpts) < args.save_total_limit
                         THEN Append(ckpts, iterations)
                         ELSE Append(Tail(ckpts), iterations))
       /\ (calls' = calls + 1 /\ pc' = "epoch" /\ ckpts # <<>>) =>
            /\ iterations' = Last(ckpts)
            /\ restored' = Last(ckpts)]_vars

\* C12 witness: the folder is full, its oldest checkpoints have been removed,
\* and a restarted train() has restored the newest one
C12_Witness ==
    /\ calls = 2 /\ pc = "epoch" /\ args.save_total_limit = 2
    /\ Len(ckpts) = 2 /\ ckpts[1] > 1
    /\ restored = Last(ckpts) /\ iterations = Last(ckpts)


\* C13: the loop leaves an epoch at the applied step that makes the number
\* of steps applied in that epoch equal to train_steps, and at no earlier
\* step (stated here for runs that did not resume from a checkpoint, at
\* steps where batches of the epoch's pass are still unread).
C13_EpochBreak ==
    [][(pc = "tail" /\ pc' \in {"epoch", "next"} /\ restored = 0 /\ it_pos < num_batches)
        => ((pc' = "epoch") <=> (step + 1 = train_steps))]_vars


\* C14: in every state of the training loop the accumulator's step count is
\* the number of micro-batches folded in since its last reset and every
\* accumulated gradient is the sum, over those micro-batches and all
\* replicas, of the gradients given; a variable that never received a
\* gradient has accumulated zero.
C14_AccumulatorSum ==
    InTrain =>
        /\ accumulator.step = Len(folded)
        /\ \A v \in TrainableVariables :
              accumulator.gradients[v] = HistorySum(folded, v)
        /\ model = ConstantModel => accumulator.gradients["bias"] = 0

\* C14 witness: two micro-batches on two replicas with different
\* gradients, one of them without a bias gradient, are in the accumulator
C14_Witness ==
    /\ pc = "next" /\ args.num_replicas = 2 /\ Len(folded) = 2
    /\ folded[1] = <<[kernel |-> 2, bias |-> 0], [kernel |-> -3, bias |-> 3]>>
    /\ folded[2] = <<[kernel |-> 1, bias |-> 1], [kernel |-> 1, bias |-> 1]>>
    /\ accumulator = [step |-> 2, gradients |-> [kernel |-> 1, bias |-> 5]]


\* C15: an applied step whose body reaches line 356 saves a checkpoint
\* exactly when its global step is a multiple of save_steps; the save adds
\* one checkpoint, which records an iteration counter equal to that global
\* step; nothing else in the run saves a checkpoint.
C15_CheckpointCadence ==
    [][/\ (pc = "tail" /\ pc' \in {"epoch", "next"}) =>
            /\ (ckpts' # ckpts) <=> (global_step % args.save_steps = 0)
            /\ ckpts' # ckpts =>
                 /\ Last(ckpts') = global_step
                 /\ {ckpts'[k] : k \in 1..Len(ckpts')} \ {ckpts[k] : k \in 1..Len(ckpts)}
                        = {global_step}
       /\ pc # "tail" => ckpts' = ckpts]_vars

\* C15 witness: with save_steps = 2 the applied step 1 saved nothing and
\* the applied step 2 saved the checkpoint of counter 2
C15_Witness ==
    /\ pc \in {"epoch", "next"} /\ args.save_steps = 2 /\ args.save_total_limit = 2
    /\ restored = 0 /\ global_step = 2 /\ ckpts = <<2>>


\* the log entry an evaluation writes: it holds eval_loss
IsEvalEntry(e) == EvalKey("loss") \in e.keys

\* C16: an applied step starts an evaluation exactly when
\* evaluate_during_training is set and its global step is a multiple of
\* eval_steps. The evaluation starts with the global step and the epoch
\* progress of the step already set and before the step has logged or saved
\* anything; it writes its metrics tagged with the step's global step; the
\* cadence log, the checkpoint and the epoch-break test come after it, the
\* checkpoint being saved also at the step that leaves the epoch.
C16_EvaluationOrder ==
    [][/\ (pc = "body" /\ pc' # "idle") =>
            /\ (pc' = "eval") <=>
                 (args.evaluate_during_training /\ global_step' % args.eval_steps = 0)
            /\ pc' = "eval" =>
                 /\ global_step' = iterations
                 /\ epoch_logging' = <<epoch_iter - 1, step + 1>>
                 /\ log' = log /\ ckpts' = ckpts /\ epoch_iter' = epoch_iter
       /\ (pc' = "eval" /\ pc # "eval") => pc = "body"
       /\ (pc = "eval" /\ pc' = "eval") =>
            UNCHANGED <<log, ckpts, global_step, epoch_logging, epoch_iter>>
       /\ (pc = "eval" /\ pc' \notin {"eval", "idle"}) =>
            /\ pc' = "tail"
            /\ Len(log') = Len(log) + 1 /\ SubSeq(log', 1, Len(log)) = log
            /\ IsEvalEntry(Last(log')) /\ Last(log').step = global_step
            /\ UNCHANGED <<ckpts, global_step, epoch_logging, epoch_iter>>
       /\ (pc = "tail" /\ pc' # "idle") =>
            /\ log' = (IF global_step % args.logging_steps = 0
                       THEN Append(log, LogEntry({Key("loss"), Key("learning_rate"),
                                                  Key("epoch")}, global_step))
                       ELSE log)
            /\ global_step % args.save_steps = 0 => Last(ckpts') = global_step
            /\ pc' \in {"epoch", "next"}]_vars

\* C16 witness: the applied step 2 ran an evaluation, then wrote the
\* cadence log, then saved its checkpoint and left the epoch
C16_Witness ==
    /\ pc = "epoch" /\ args.evaluate_during_training /\ global_step = 2
    /\ Len(log) >= 2
    /\ IsEvalEntry(log[Len(log) - 1]) /\ log[Len(log) - 1].step = 2
    /\ ~IsEvalEntry(Last(log)) /\ Last(log).step = 2
    /\ Last(ckpts) = 2


\* the examples of the batches a prediction loop was given, in the order met
Seen(batches) == Concat(batches)

\* C17: a prediction loop that is not in loss-only mode and has consumed a
\* dataset of at least one batch returns predictions and label_ids with one
\* entry per example seen; entry i of both belongs to the i-th example in
\* the order of the batches and, within a batch, of the replica shards.
C17_Alignment ==
    (ev.pc = "returned" /\ ~ev.loss_only) =>
        /\ ~ev.preds.none /\ ~ev.label_ids.none
        /\ Len(ev.preds.val) = Len(Seen(ev.batches))
        /\ Len(ev.label_ids.val) = Len(ev.preds.val)
        /\ \A k \in 1..Len(ev.preds.val) :
              /\ ev.preds.val[k] = ModelLogits(Seen(ev.batches)[k])
              /\ ev.label_ids.val[k] = Label(Seen(ev.batches)[k])
        /\ Seen(ev.batches)
              = Concat([b \in 1..Len(ev.batches) |->
                   Concat([r \in 1..args.num_replicas |-> Shard(ev.batches[b], r)])])

\* C17 witness: three examples in batches of two on two replicas, the
\* last batch leaving the second replica without an example
C17_Witness ==
    /\ ev.pc = "returned" /\ ~ev.loss_only /\ args.num_replicas = 2
    /\ ev.batches = <<<<1, 2>>, <<3>>>>
    /\ ev.preds = Some(<<1, 2, 3>>) /\ ev.label_ids = Some(<<1, 2, 3>>)


\* _training_steps, lines 367-370: the steps a full pass over the batches
\* yields, one at every batch whose index is a multiple of
\* gradient_accumulation_steps
PassSteps == Ceil(num_batches, args.gradient_accumulation_steps)

\* lines 330-361: the optimizer counter at which an epoch entered at counter
\* g is left, by the break at the next multiple of train_steps or by the end
\* of the pass
EpochEnd(g) ==
    IF PassSteps = 0 \/ train_steps = 0 THEN g
    ELSE IF train_steps - (g % train_steps) <= PassSteps
         THEN g + train_steps - (g % train_steps)
         ELSE g + PassSteps

\* line 329: the counter after the epochs e .. epochs, entered at counter g
RECURSIVE RunEnd(_, _)
RunEnd(g, e) == IF e > epochs THEN g ELSE RunEnd(EpochEnd(g), e + 1)

\* C18: without a step budget, a train() that resumes from a saved
\* checkpoint returns with the optimizer at the same counter as the run
\* that starts at counter 0 and is never interrupted.
C18_ResumeEquivalence ==
    (pc = "done" /\ args.max_steps = 0 /\ ~injected /\ restored > 0)
        => iterations = RunEnd(0, 1)


\* C19: in every state of a train() call the global step and the optimizer
\* counter are at most epochs x train_steps, and a call that restored a
\* checkpoint whose counter is already epochs x train_steps or more applies
\* no optimizer step.
C19_StepBound ==
    InTrain =>
        /\ global_step <= epochs * train_steps
        /\ iterations <= epochs * train_steps
        /\ (restored > 0 /\ restored >= epochs * train_steps) =>
              /\ iterations = restored
              /\ pc \notin {"apply", "body", "eval", "tail"}

\* C19 witness: a restarted train() restored the checkpoint of the last
\* step of the finished run and returned without a step
C19_Witness ==
    /\ pc = "done" /\ calls = 2 /\ restored > 0 /\ epochs = 2
    /\ restored = epochs * train_steps /\ iterations = restored


\* C20: whenever train() stands at the head of its epoch loop (line 329),
\* about to enter an epoch or to return, and when it has returned, the
\* accumulator holds no micro-batch.
C20_NoLeftover ==
    (pc \in {"epoch", "done"}) => accumulator.step = 0


\* C21: an optimizer apply is reached only from an accumulate, which has
\* raised the step count by one; at every apply the step count and the
\* gradient scale step count x replica count are at least 1; the apply
\* leaves the step count at 0, so that the next apply needs a new accumulate.
C21_NoEmptyApply ==
    [][/\ (pc' = "apply" /\ pc # "apply") =>
            /\ pc = "next"
            /\ accumulator'.step = accumulator.step + 1
            /\ Len(folded') = Len(folded) + 1
       /\ (pc = "apply" /\ pc' = "body") =>
            /\ accumulator.step >= 1
            /\ GradientScale(accumulator) >= 1
            /\ scale' = accumulator.step * args.num_replicas
            /\ Len(applied_from') >= 1
            /\ accumulator'.step = 0
       /\ pc = "body" => pc' # "apply"]_vars

\* C21 witness: the second apply of a run on two replicas was made over the
\* one micro-batch accumulated after the first apply, with scale 2
C21_Witness ==
    /\ pc = "body" /\ args.num_replicas = 2 /\ iterations = 2
    /\ Len(applied_from) = 1 /\ scale = 2 /\ accumulator.step = 0

====
